---- MODULE Spec2Model ----
(***************************************************************************)
(* ExperienceBuffer of NCF_policies/algo2/policy/ppo/experience.py:        *)
(* rollout storage, GAE returns, the flattened training view and its       *)
(* minibatches.                                                            *)
(*                                                                         *)
(* float32 tensors are modelled by exact rationals <<n, d>> (d > 0, lowest *)
(* terms; <<0, 0>> is NaN); the uint8 tensor "dones" by naturals below     *)
(* 256. Tensors are functions on 0..n-1, indexed as in the source. The     *)
(* trailing axes of a field (obs_dim, act_dim, the 1 of rewards/values/    *)
(* returns) are one payload per (time, env) cell: no operation of the      *)
(* buffer looks inside them.                                               *)
(***************************************************************************)
EXTENDS Integers, Sequences, FiniteSets, TLC

VARIABLES
    num_envs,            \* self.num_envs
    transitions_per_env, \* self.transitions_per_env (horizon_length)
    batch_size,          \* self.batch_size
    minibatch_size,      \* self.minibatch_size
    length,              \* self.length
    storage_dict,        \* self.storage_dict: field -> [time -> [env -> value]]
    data_dict,           \* self.data_dict: <<>> is None, else field -> flat array
    last_range,          \* self.last_range: <<>> is "attribute not set", else <<start, end>>
    ret,                 \* the last call: its name, arguments, error and result
    cycle,               \* history of the current collection cycle
    written,             \* history: the value last written to each (field, time)
    n_calls              \* history: number of calls so far, by kind and in all

vars == <<num_envs, transitions_per_env, batch_size, minibatch_size, length,
          storage_dict, data_dict, last_range, ret, cycle, written, n_calls>>

dims == <<num_envs, transitions_per_env, batch_size, minibatch_size, length>>

----------------------------------------------------------------------------
(* Bounds of the model.                                                    *)

MaxEnvs == 2
MaxHorizon == 2
MaxCells == 4
MaxWrites == 1
MaxUpdates == 1
MaxCalls == 4
MaxGaeHorizon == 3
MaxViewWrites == 2
MaxBatch == 5
MaxNewCalls == 2

----------------------------------------------------------------------------
(* Rational arithmetic standing for float32 arithmetic.                    *)

Abs(x) == IF x < 0 THEN -x ELSE x

RECURSIVE GCD(_, _)
GCD(a, b) == IF b = 0 THEN a ELSE GCD(b, a % b)

QNorm(n, d) ==
    IF d = 0 THEN <<0, 0>>
    ELSE LET g == GCD(Abs(n), Abs(d))
             s == IF d < 0 THEN -1 ELSE 1
         IN  <<(s * n) \div g, (s * d) \div g>>

QAdd(a, b) == QNorm(a[1] * b[2] + b[1] * a[2], a[2] * b[2])
QSub(a, b) == QNorm(a[1] * b[2] - b[1] * a[2], a[2] * b[2])
QMul(a, b) == QNorm(a[1] * b[1], a[2] * b[2])
QDiv(a, b) == QNorm(a[1] * b[2], a[2] * b[1])
QLess(a, b) == a[2] # 0 /\ b[2] # 0 /\ a[1] * b[2] < b[1] * a[2]
QIsNaN(a) == a[2] = 0

Zero == <<0, 1>>
One == <<1, 1>>
Half == <<1, 2>>

\* uint8 -> float32 (.float()) and float32 -> uint8 (a store into "dones")
ToFloat(n) == <<n, 1>>
ToUint8(q) == (q[1] \div q[2]) % 256

RECURSIVE QSum(_, _)
QSum(a, n) == IF n = 0 THEN Zero ELSE QAdd(QSum(a, n - 1), a[n - 1])

----------------------------------------------------------------------------
(* The fields.                                                             *)

Fields == {"obses", "priv_info", "point_cloud_info", "rewards", "values",
           "neglogpacs", "dones", "actions", "mus", "sigmas", "returns"}

\* the fields __getitem__ returns, in its order
Served == <<"values", "neglogpacs", "advantages", "mus", "sigmas", "returns",
            "actions", "obses", "priv_info", "point_cloud_info">>

ServedSet == {Served[i] : i \in 1..Len(Served)}

ZeroOf(name) == IF name = "dones" THEN 0 ELSE Zero

\* torch.zeros((transitions_per_env, num_envs, ...)) for every field
Zeros(E, T) == [k \in Fields |-> [t \in 0..T-1 |-> [e \in 0..E-1 |-> ZeroOf(k)]]]

NoRet == [op |-> "none", arg |-> <<>>, err |-> "none", out |-> <<>>]
NewCycle == [computed |-> FALSE, prepared |-> FALSE, served |-> FALSE, args |-> <<>>]
NoCalls == [writes |-> 0, updates |-> 0, returns |-> 0, total |-> 0]

\* __init__: no argument is validated; length is the floor quotient. The
\* storage is sd (Zeros(E, T) right after construction).
NewWith(E, T, B, M, sd) ==
    /\ num_envs = E
    /\ transitions_per_env = T
    /\ batch_size = B
    /\ minibatch_size = M
    /\ length = B \div M
    /\ storage_dict = sd
    /\ data_dict = <<>>
    /\ last_range = <<>>
    /\ ret = NoRet
    /\ cycle = NewCycle
    /\ written = [k \in Fields |-> [t \in 0..T-1 |-> <<>>]]
    /\ n_calls = NoCalls

New(E, T, B, M) == NewWith(E, T, B, M, Zeros(E, T))

----------------------------------------------------------------------------
(* Arrays and Python slicing.                                              *)

ALen(a) == Cardinality(DOMAIN a)

\* a slice bound as Python resolves it against a length n
PyBound(i, n) == IF i < 0 THEN (IF i + n < 0 THEN 0 ELSE i + n)
                 ELSE (IF i > n THEN n ELSE i)

SliceLo(start, end, n) == PyBound(start, n)
SliceHi(start, end, n) ==
    IF PyBound(end, n) < PyBound(start, n) THEN PyBound(start, n) ELSE PyBound(end, n)

\* v[start:end]
Slice(v, start, end) ==
    LET n == ALen(v)
        lo == SliceLo(start, end, n)
        hi == SliceHi(start, end, n)
    IN  [j \in 0..(hi - lo - 1) |-> v[lo + j]]

\* whether a tensor of leading length m can be assigned to one of leading length n
Broadcasts(m, n) == m = n \/ m = 1

\* a variant that ignores the slice bounds and assigns over the whole tensor
SliceAssignAll(v, start, end, x) ==
    [i \in DOMAIN v |-> IF ALen(x) = 1 THEN x[0] ELSE x[i % ALen(x)]]

\* v[start:end] = x, for x that broadcasts
SliceAssign(v, start, end, x) ==
    LET n == ALen(v)
        lo == SliceLo(start, end, n)
        hi == SliceHi(start, end, n)
    IN  [i \in DOMAIN v |->
            IF lo <= i /\ i < hi
            THEN (IF ALen(x) = 1 THEN x[0] ELSE x[i - lo])
            ELSE v[i]]

----------------------------------------------------------------------------
(* transform_op                                                            *)

\* arr.transpose(0, 1)
Transpose(arr, s0, s1) == [e \in 0..s1-1 |-> [t \in 0..s0-1 |-> arr[t][e]]]

\* a.reshape(rows * cols, ...) of a [rows, cols, ...] tensor (row-major)
Reshape(a, rows, cols) == [i \in 0..rows*cols-1 |-> a[i \div cols][i % cols]]

\* a variant that flattens without swapping the axes
transform_op_noswap(arr, s0, s1) == Reshape(arr, s0, s1)

transform_op(arr, s0, s1) == Reshape(Transpose(arr, s0, s1), s1, s0)

\* reshape returns a view of the transposed tensor, not a copy, when one of
\* the two swapped axes has extent 1: the flat tensor then shares the memory
\* of the storage tensor.
SharesMemory(s0, s1) == s0 = 1 \/ s1 = 1

HasView == DOMAIN data_dict # {}

\* the storage tensor seen through a flat tensor that shares its memory
Unflatten(v, s0, s1) == [t \in 0..s0-1 |-> [e \in 0..s1-1 |-> v[e * s0 + t]]]

\* data_dict as it reads after storage became sd
ViewAfterStore(sd) ==
    IF HasView /\ SharesMemory(transitions_per_env, num_envs)
    THEN [k \in DOMAIN data_dict |->
            IF k \in Fields
            THEN transform_op(sd[k], transitions_per_env, num_envs)
            ELSE data_dict[k]]
    ELSE data_dict

\* storage_dict as it reads after data_dict became dd
StoreAfterView(dd) ==
    IF SharesMemory(transitions_per_env, num_envs)
    THEN [k \in Fields |-> Unflatten(dd[k], transitions_per_env, num_envs)]
    ELSE storage_dict

----------------------------------------------------------------------------
(* update_data                                                             *)

Cast(name, q) == IF name = "dones" THEN ToUint8(q) ELSE q

\* storage_dict[name][index, :] = val; index and val are valid here
StoreRow(sd, name, t, val) ==
    [sd EXCEPT ![name][t] =
        [e \in 0..num_envs-1 |->
            Cast(name, IF ALen(val) = 1 THEN val[0] ELSE val[e])]]

UpdateDataError(index, val) ==
    IF index < -transitions_per_env \/ index >= transitions_per_env
    THEN "IndexError"
    ELSE IF ~Broadcasts(ALen(val), num_envs) THEN "RuntimeError"
    ELSE "none"

UpdateData(name, index, val) ==
    LET err == UpdateDataError(index, val)
        t == IF index < 0 THEN index + transitions_per_env ELSE index
    IN  /\ n_calls' = [n_calls EXCEPT !.writes = @ + 1, !.total = @ + 1]
        /\ ret' = [op |-> "update_data", arg |-> <<name, index, val>>,
                   err |-> err, out |-> <<>>]
        /\ IF err = "none"
           THEN /\ storage_dict' = StoreRow(storage_dict, name, t, val)
                /\ data_dict' = ViewAfterStore(StoreRow(storage_dict, name, t, val))
                /\ written' = [written EXCEPT ![name][t] = val]
                /\ cycle' = NewCycle
           ELSE UNCHANGED <<storage_dict, data_dict, written, cycle>>
        /\ UNCHANGED <<dims, last_range>>

----------------------------------------------------------------------------
(* computer_return                                                         *)

\* a variant that bootstraps from the value at t itself
NextValuesSameStep(sd, t, last_values) ==
    IF t = transitions_per_env - 1 THEN last_values ELSE sd["values"][t]

\* lines 166-169: the value that follows time t
NextValues(sd, t, last_values) ==
    IF t = transitions_per_env - 1 THEN last_values ELSE sd["values"][t + 1]

\* a variant that takes the done flag of the first environment for all
NextNonterminalFirstEnv(sd, t) ==
    [e \in 0..num_envs-1 |-> QSub(One, ToFloat(sd["dones"][t][0]))]

\* lines 170-171: 1.0 - dones.float()[t]
NextNonterminal(sd, t) ==
    [e \in 0..num_envs-1 |-> QSub(One, ToFloat(sd["dones"][t][e]))]

\* lines 172-176: rewards[t] + gamma * next_values * next_nonterminal - values[t]
Delta(sd, t, next_values, next_nonterminal, gamma) ==
    [e \in 0..num_envs-1 |->
        QSub(QAdd(sd["rewards"][t][e],
                  QMul(QMul(gamma, next_values[e]), next_nonterminal[e])),
             sd["values"][t][e])]

\* a variant that carries the accumulator across a terminal step
GaeStepNoReset(delta, next_nonterminal, last_gae_lam, gamma, tau) ==
    [e \in 0..num_envs-1 |->
        QAdd(delta[e], QMul(QMul(gamma, tau), last_gae_lam[e]))]

\* a variant that discounts the accumulator by gamma alone
GaeStepNoTau(delta, next_nonterminal, last_gae_lam, gamma, tau) ==
    [e \in 0..num_envs-1 |->
        QAdd(delta[e], QMul(QMul(gamma, next_nonterminal[e]), last_gae_lam[e]))]

\* a variant that does not carry the accumulator to the earlier step
GaeStepNoCarry(delta, next_nonterminal, last_gae_lam, gamma, tau) ==
    [e \in 0..num_envs-1 |-> delta[e]]

\* lines 177-179: delta + gamma * tau * next_nonterminal * last_gae_lam
GaeStep(delta, next_nonterminal, last_gae_lam, gamma, tau) ==
    [e \in 0..num_envs-1 |->
        QAdd(delta[e],
             QMul(QMul(QMul(gamma, tau), next_nonterminal[e]), last_gae_lam[e]))]

\* one pass of the loop body at time t, then the earlier times
RECURSIVE GaeLoop(_, _, _, _, _, _)
GaeLoop(sd, t, last_gae_lam, last_values, gamma, tau) ==
    IF t < 0 THEN sd
    ELSE
        LET next_values == NextValues(sd, t, last_values)
            next_nonterminal == NextNonterminal(sd, t)
            delta == Delta(sd, t, next_values, next_nonterminal, gamma)
            mb_advs_t == GaeStep(delta, next_nonterminal, last_gae_lam, gamma, tau)
            returns_t == [e \in 0..num_envs-1 |-> QAdd(mb_advs_t[e], sd["values"][t][e])]
        IN  GaeLoop([sd EXCEPT !["returns"][t] = returns_t],
                    t - 1, mb_advs_t, last_values, gamma, tau)

\* a variant whose loop starts one step early and leaves the last row of
\* returns as it was
computer_return_skip_last(sd, last_values, gamma, tau) ==
    GaeLoop(sd, transitions_per_env - 2, [e \in 0..num_envs-1 |-> Zero],
            last_values, gamma, tau)

\* a variant that also stores the returns over the values
computer_return_into_values(sd, last_values, gamma, tau) ==
    LET filled == GaeLoop(sd, transitions_per_env - 1, [e \in 0..num_envs-1 |-> Zero],
                          last_values, gamma, tau)
    IN  [filled EXCEPT !["values"] = filled["returns"]]

computer_return(sd, last_values, gamma, tau) ==
    GaeLoop(sd, transitions_per_env - 1, [e \in 0..num_envs-1 |-> Zero],
            last_values, gamma, tau)

ComputerReturn(last_values, gamma, tau) ==
    /\ storage_dict' = computer_return(storage_dict, last_values, gamma, tau)
    /\ data_dict' = ViewAfterStore(computer_return(storage_dict, last_values, gamma, tau))
    /\ ret' = [op |-> "computer_return", arg |-> <<last_values, gamma, tau>>,
               err |-> "none", out |-> <<>>]
    /\ cycle' = [cycle EXCEPT !.computed = TRUE,
                             !.args = <<last_values, gamma, tau>>]
    /\ written' = [written EXCEPT !["returns"] = [t \in DOMAIN @ |-> <<>>]]
    /\ n_calls' = [n_calls EXCEPT !.returns = @ + 1, !.total = @ + 1]
    /\ UNCHANGED <<dims, last_range>>

----------------------------------------------------------------------------
(* prepare_training                                                        *)

\* torch's std(): the unbiased estimator, NaN (0/0) for a single sample
Variance(raw) ==
    LET n == ALen(raw)
        mean == QDiv(QSum(raw, n), ToFloat(n))
        sq == [i \in DOMAIN raw |-> QMul(QSub(raw[i], mean), QSub(raw[i], mean))]
    IN  QDiv(QSum(sq, n), ToFloat(n - 1))

\* (advantages - advantages.mean()) / (advantages.std() + 1e-8), kept exact:
\* entry i is [num |-> raw[i] - mean, var |-> std^2] and stands for
\* num / (sqrt(var) + 1e-8).
Normalize(raw) ==
    LET n == ALen(raw)
        mean == QDiv(QSum(raw, n), ToFloat(n))
    IN  [i \in DOMAIN raw |-> [num |-> QSub(raw[i], mean), var |-> Variance(raw)]]

prepare_training(sd) ==
    LET flat == [k \in Fields |-> transform_op(sd[k], transitions_per_env, num_envs)]
        advantages == [i \in DOMAIN flat["returns"] |->
                          QSub(flat["returns"][i], flat["values"][i])]
    IN  [k \in Fields \cup {"advantages"} |->
            IF k = "advantages" THEN Normalize(advantages) ELSE flat[k]]

PrepareTraining ==
    /\ data_dict' = prepare_training(storage_dict)
    /\ ret' = [op |-> "prepare_training", arg |-> <<>>, err |-> "none", out |-> <<>>]
    /\ cycle' = [cycle EXCEPT !.prepared = TRUE]
    /\ n_calls' = [n_calls EXCEPT !.total = @ + 1]
    /\ UNCHANGED <<dims, storage_dict, last_range, written>>

----------------------------------------------------------------------------
(* __getitem__ and update_mu_sigma                                         *)

\* a variant that takes the minibatch number for the sample index
ItemStartUnscaled(idx) == idx

ItemStart(idx) == idx * minibatch_size
ItemEnd(idx) == (idx + 1) * minibatch_size

\* input_dict, restricted to the fields the method returns
GetItemOut(dd, idx) ==
    [k \in ServedSet |-> Slice(dd[k], ItemStart(idx), ItemEnd(idx))]

GetItem(idx) ==
    /\ last_range' = <<ItemStart(idx), ItemEnd(idx)>>
    /\ IF HasView
       THEN /\ ret' = [op |-> "getitem", arg |-> <<idx>>, err |-> "none",
                       out |-> GetItemOut(data_dict, idx)]
            /\ cycle' = [cycle EXCEPT !.served = TRUE]
       ELSE /\ ret' = [op |-> "getitem", arg |-> <<idx>>, err |-> "AttributeError",
                       out |-> <<>>]
            /\ cycle' = cycle
    /\ n_calls' = [n_calls EXCEPT !.total = @ + 1]
    /\ UNCHANGED <<dims, storage_dict, data_dict, written>>

\* data_dict after the two slice assignments; the second is not reached when
\* the first raises
MuSigmaError(dd, mu, sigma) ==
    LET n == ALen(dd["mus"])
        len == SliceHi(last_range[1], last_range[2], n)
               - SliceLo(last_range[1], last_range[2], n)
    IN  IF ~Broadcasts(ALen(mu), len) \/ ~Broadcasts(ALen(sigma), len)
        THEN "RuntimeError" ELSE "none"

update_mu_sigma(dd, mu, sigma) ==
    LET n == ALen(dd["mus"])
        start == last_range[1]
        end == last_range[2]
        len == SliceHi(start, end, n) - SliceLo(start, end, n)
        dd1 == IF Broadcasts(ALen(mu), len)
               THEN [dd EXCEPT !["mus"] = SliceAssign(@, start, end, mu)]
               ELSE dd
    IN  IF Broadcasts(ALen(mu), len) /\ Broadcasts(ALen(sigma), len)
        THEN [dd1 EXCEPT !["sigmas"] = SliceAssign(@, start, end, sigma)]
        ELSE dd1

UpdateMuSigma(mu, sigma) ==
    /\ n_calls' = [n_calls EXCEPT !.updates = @ + 1, !.total = @ + 1]
    /\ IF last_range = <<>>
       THEN /\ ret' = [op |-> "update_mu_sigma", arg |-> <<mu, sigma>>,
                       err |-> "AttributeError", out |-> <<>>]
            /\ UNCHANGED <<data_dict, storage_dict>>
       ELSE IF ~HasView
       THEN /\ ret' = [op |-> "update_mu_sigma", arg |-> <<mu, sigma>>,
                       err |-> "TypeError", out |-> <<>>]
            /\ UNCHANGED <<data_dict, storage_dict>>
       ELSE /\ ret' = [op |-> "update_mu_sigma", arg |-> <<mu, sigma>>,
                       err |-> MuSigmaError(data_dict, mu, sigma), out |-> <<>>]
            /\ data_dict' = update_mu_sigma(data_dict, mu, sigma)
            /\ storage_dict' = StoreAfterView(update_mu_sigma(data_dict, mu, sigma))
    /\ written' = [k \in Fields |->
                      IF storage_dict'[k] = storage_dict[k] THEN written[k]
                      ELSE [t \in DOMAIN written[k] |-> <<>>]]
    /\ UNCHANGED <<dims, last_range, cycle>>

----------------------------------------------------------------------------
(* The inputs of the model and its specifications.                         *)

\* [num_envs, horizon_length] pairs
Shapes == {s \in (1..MaxEnvs) \X (1..MaxHorizon) : s[1] * s[2] <= MaxCells}

\* float32 vectors of length n: a + i at position i
Vecs(n) == {[i \in 0..n-1 |-> ToFloat(a + i)] : a \in 1..2}

\* done flags of n environments
DoneVecs(n) == [0..n-1 -> {Zero, One}]

WriteVals(name) == IF name = "dones" THEN DoneVecs(num_envs) ELSE Vecs(num_envs)

\* a buffer as constructed by a caller that keeps the dimensions consistent
Init ==
    \E s \in Shapes : \E M \in 1..(s[1] * s[2]) :
        /\ (s[1] * s[2]) % M = 0
        /\ New(s[1], s[2], s[1] * s[2], M)

\* the calls of one run are bounded
MayCall == n_calls.total < MaxCalls
MayWrite == MayCall /\ n_calls.writes < MaxWrites
MayUpdate == MayCall /\ n_calls.updates < MaxUpdates

Next ==
    \/ \E name \in Fields : \E index \in 0..transitions_per_env-1 :
         \E val \in WriteVals(name) : MayWrite /\ UpdateData(name, index, val)
    \/ \E last_values \in Vecs(num_envs) :
         MayCall /\ ComputerReturn(last_values, Half, Half)
    \/ MayCall /\ PrepareTraining
    \/ \E idx \in 0..length : MayCall /\ GetItem(idx)
    \/ \E mu \in Vecs(minibatch_size) : \E sigma \in Vecs(minibatch_size) :
         MayUpdate /\ UpdateMuSigma(mu, sigma)

Spec == Init /\ [][Next]_vars

----------------------------------------------------------------------------
(* Returns over any stored rewards, values and dones.                      *)

GaeShapes == {s \in (1..MaxEnvs) \X (1..MaxGaeHorizon) : s[1] * s[2] <= MaxCells}

Gammas == {Zero, Half, One}
Taus == {Zero, Half, One}
RewardVals == {Zero, One}
ValueVals == {Zero, ToFloat(2)}
BootVecs(n) == {[e \in 0..n-1 |-> ToFloat(a + e)] : a \in 0..1}

\* the buffer after a collection: rewards, values and dones written at every time
InitGAE ==
    \E s \in GaeShapes :
        \E rewards \in [0..s[2]-1 -> [0..s[1]-1 -> RewardVals]] :
        \E values \in [0..s[2]-1 -> [0..s[1]-1 -> ValueVals]] :
        \E dones \in [0..s[2]-1 -> [0..s[1]-1 -> {0, 1}]] :
            NewWith(s[1], s[2], s[1] * s[2], s[1] * s[2],
                    [Zeros(s[1], s[2]) EXCEPT !["rewards"] = rewards,
                                              !["values"] = values,
                                              !["dones"] = dones])

\* one call on each collected buffer
NextGAE ==
    \E last_values \in BootVecs(num_envs) : \E gamma \in Gammas : \E tau \in Taus :
        n_calls.returns = 0 /\ ComputerReturn(last_values, gamma, tau)

SpecGAE == InitGAE /\ [][NextGAE]_vars

----------------------------------------------------------------------------
(* Writes, the flattened view and its minibatches.                         *)

NextView ==
    \/ \E name \in Fields : \E index \in 0..transitions_per_env-1 :
         \E val \in WriteVals(name) :
            MayCall /\ n_calls.writes < MaxViewWrites /\ UpdateData(name, index, val)
    \/ MayCall /\ PrepareTraining
    \/ \E idx \in 0..length : MayCall /\ GetItem(idx)

SpecView == Init /\ [][NextView]_vars

----------------------------------------------------------------------------
(* Construction with any dimensions.                                       *)

InitNew ==
    \E E \in 1..MaxEnvs : \E T \in 1..MaxHorizon :
        \E B \in 1..MaxBatch : \E M \in 1..MaxBatch : New(E, T, B, M)

NextNew ==
    \/ n_calls.total < MaxNewCalls /\ PrepareTraining
    \/ \E idx \in 0..length : n_calls.total < MaxNewCalls /\ GetItem(idx)

SpecNew == InitNew /\ [][NextNew]_vars

----------------------------------------------------------------------------
(* Writes with any time index and any number of rows in the value.         *)

\* the time indices a caller may pass: one below -horizon_length up to
\* horizon_length
WriteIndices == (-(transitions_per_env + 1))..transitions_per_env

\* values with one row, num_envs rows and num_envs + 1 rows
AnyRowVals(name) ==
    WriteVals(name) \cup Vecs(1) \cup Vecs(num_envs + 1)

NextWrite ==
    \E name \in Fields : \E index \in WriteIndices : \E val \in AnyRowVals(name) :
        MayWrite /\ UpdateData(name, index, val)

SpecWrite == Init /\ [][NextWrite]_vars

----------------------------------------------------------------------------
(* One complete collection cycle on a buffer that was used before.         *)

\* the fields a collection writes, in the order of one step
WrittenSeq == <<"obses", "priv_info", "point_cloud_info", "rewards", "values",
                "neglogpacs", "dones", "actions", "mus", "sigmas">>

\* storage as an earlier cycle left it: every field, returns included, holds
\* non-zero entries and every done flag is set
OldStorage(E, T) ==
    [k \in Fields |-> [t \in 0..T-1 |-> [e \in 0..E-1 |->
        IF k = "dones" THEN 1 ELSE ToFloat(3 + t + e)]]]

\* what the buffer went through before the cycle: nothing; a collection;
\* a collection, prepare_training, __getitem__(0) and update_mu_sigma
Histories == {"fresh", "collected", "trained"}

OldMuSigma(M) == [i \in 0..M-1 |-> ToFloat(9)]

InitCycle ==
    \E s \in Shapes : \E M \in 1..(s[1] * s[2]) : \E h \in Histories :
        /\ (s[1] * s[2]) % M = 0
        /\ num_envs = s[1]
        /\ transitions_per_env = s[2]
        /\ batch_size = s[1] * s[2]
        /\ minibatch_size = M
        /\ length = (s[1] * s[2]) \div M
        /\ last_range = IF h = "trained" THEN <<ItemStart(0), ItemEnd(0)>> ELSE <<>>
        /\ data_dict = IF h = "trained"
                       THEN update_mu_sigma(prepare_training(OldStorage(s[1], s[2])),
                                            OldMuSigma(M), OldMuSigma(M))
                       ELSE <<>>
        /\ storage_dict = IF h = "fresh" THEN Zeros(s[1], s[2])
                          ELSE IF h = "trained" /\ SharesMemory(s[2], s[1])
                          THEN [k \in Fields |-> Unflatten(data_dict[k], s[2], s[1])]
                          ELSE OldStorage(s[1], s[2])
        /\ ret = NoRet
        /\ cycle = NewCycle
        /\ written = [k \in Fields |-> [t \in 0..s[2]-1 |-> <<>>]]
        /\ n_calls = NoCalls

\* the number of writes of one collection
CycleWrites == Len(WrittenSeq) * transitions_per_env

\* the values a step writes: any reward, value and done flags, one vector for
\* the other fields
CycleVals(name) ==
    IF name \in {"rewards", "values", "dones"} THEN WriteVals(name)
    ELSE {v \in Vecs(num_envs) : v[0] = One}

\* the collection writes every field at every time, step by step; then
\* computer_return, prepare_training and one __getitem__
NextCycle ==
    \/ \E val \in CycleVals(WrittenSeq[(n_calls.writes % Len(WrittenSeq)) + 1]) :
         /\ n_calls.writes < CycleWrites
         /\ UpdateData(WrittenSeq[(n_calls.writes % Len(WrittenSeq)) + 1],
                       n_calls.writes \div Len(WrittenSeq), val)
    \/ \E last_values \in Vecs(num_envs) :
         /\ n_calls.writes = CycleWrites /\ n_calls.returns = 0
         /\ ComputerReturn(last_values, Half, Half)
    \/ /\ n_calls.returns = 1 /\ n_calls.total = CycleWrites + 1
       /\ PrepareTraining
    \/ \E idx \in 0..length-1 :
         /\ n_calls.total = CycleWrites + 2
         /\ GetItem(idx)

SpecCycle == InitCycle /\ [][NextCycle]_vars

----------------------------------------------------------------------------
(* The claims.                                                             *)

Envs == 0..num_envs-1
Times == 0..transitions_per_env-1

reward(t, e) == storage_dict["rewards"][t][e]
value(t, e) == storage_dict["values"][t][e]
done(t, e) == storage_dict["dones"][t][e]
return_(t, e) == storage_dict["returns"][t][e]

AfterReturns == ret.op = "computer_return"
bootstrap_values == ret.arg[1]
gamma_ == ret.arg[2]
tau_ == ret.arg[3]

\* 1 - done[t,e]
NotDone(t, e) == QSub(One, ToFloat(done(t, e)))

\* next_value[t,e] of the claims
NextValueOf(t, e) ==
    IF t = transitions_per_env - 1 THEN bootstrap_values[e] ELSE value(t + 1, e)

\* delta[t,e] = reward + gamma * next_value * (1 - done) - value
TdResidual(t, e) ==
    QSub(QAdd(reward(t, e), QMul(gamma_, QMul(NextValueOf(t, e), NotDone(t, e)))),
         value(t, e))

\* A[t,e] = delta[t,e] + gamma*tau*(1 - done[t,e])*A[t+1,e], A[horizon_length,e] = 0
RECURSIVE AdvantageOf(_, _)
AdvantageOf(t, e) ==
    IF t = transitions_per_env THEN Zero
    ELSE QAdd(TdResidual(t, e),
              QMul(QMul(gamma_, tau_), QMul(NotDone(t, e), AdvantageOf(t + 1, e))))

\* C1: after compute_returns, return_[t,e] = A[t,e] + value[t,e] for every
\* t and e, with A the backward GAE recursion over the stored rewards,
\* values and dones and the bootstrap values.
C1_ReturnsAreGae ==
    AfterReturns =>
        \A t \in Times : \A e \in Envs :
            return_(t, e) = QAdd(AdvantageOf(t, e), value(t, e))

\* a horizon of three steps with a terminal step in the middle, a live step
\* before it, and discounting that is neither 0 nor 1
C1_Witness ==
    /\ AfterReturns
    /\ transitions_per_env = 3
    /\ gamma_ = Half /\ tau_ = Half
    /\ done(0, 0) = 0 /\ done(1, 0) = 1 /\ done(2, 0) = 0
    /\ reward(1, 0) = One /\ reward(2, 0) = One
    /\ value(1, 0) # Zero /\ value(2, 0) # Zero
    /\ bootstrap_values[0] # Zero
    /\ return_(2, 0) # return_(1, 0)

\* C5: after compute_returns, wherever done[t,env] = 1 the return is the
\* reward alone (the raw advantage is reward - value): nothing stored at a
\* later time, and no bootstrap value, enters it.
C5_TerminalStopsCredit ==
    AfterReturns =>
        \A t \in Times : \A e \in Envs :
            done(t, e) = 1 =>
                /\ return_(t, e) = reward(t, e)
                /\ QSub(return_(t, e), value(t, e)) = QSub(reward(t, e), value(t, e))

\* a terminal step that is followed by a live step with reward, value and
\* bootstrap all non-zero, under gamma = tau = 1
C5_Witness ==
    /\ AfterReturns
    /\ transitions_per_env >= 2
    /\ gamma_ = One /\ tau_ = One
    /\ done(0, 0) = 1 /\ done(1, 0) = 0
    /\ reward(1, 0) = One /\ value(1, 0) # Zero /\ value(0, 0) # Zero
    /\ bootstrap_values[0] # Zero
    /\ return_(1, 0) # Zero

AfterPrepare == ret.op = "prepare_training"

\* the flattened index of the transition (t, env)
FlatIndex(t, e) == e * transitions_per_env + t

\* a stored entry as the float that was written
AsFloat(k, x) == IF k = "dones" THEN ToFloat(x) ELSE x

\* return_ - value of one transition, and its mean over all transitions
\* (summed time by time)
RawAdvantage(t, e) == QSub(return_(t, e), value(t, e))

RECURSIVE SumRawAdvantage(_)
SumRawAdvantage(n) ==
    IF n = 0 THEN Zero
    ELSE QAdd(SumRawAdvantage(n - 1),
              RawAdvantage((n - 1) \div num_envs, (n - 1) % num_envs))

MeanRawAdvantage ==
    QDiv(SumRawAdvantage(transitions_per_env * num_envs),
         ToFloat(transitions_per_env * num_envs))

\* C2: after write(field, t, v) and then prepare_training, with no later
\* write to that field at t, the flattened field holds v[env] at index
\* env*horizon_length + t; index i is the transition (i mod horizon_length,
\* i div horizon_length) in every field, the derived advantage included.
C2_RoundTrip ==
    AfterPrepare =>
        /\ \A k \in Fields : \A t \in Times :
              written[k][t] # <<>> =>
                 \A e \in Envs :
                    AsFloat(k, data_dict[k][FlatIndex(t, e)]) = written[k][t][e]
        /\ \A k \in Fields : \A i \in 0..(transitions_per_env * num_envs - 1) :
              data_dict[k][i] =
                 storage_dict[k][i % transitions_per_env][i \div transitions_per_env]
        /\ \A i \in 0..(transitions_per_env * num_envs - 1) :
              data_dict["advantages"][i].num =
                 QSub(RawAdvantage(i % transitions_per_env, i \div transitions_per_env),
                      MeanRawAdvantage)

\* two environments and two steps; a field written at t = 1 with different
\* values for the two environments, read back at indices 1 and 3, and
\* advantages that differ between two transitions
C2_Witness ==
    /\ AfterPrepare
    /\ num_envs = 2 /\ transitions_per_env = 2
    /\ \E k \in Fields :
          /\ written[k][1] # <<>>
          /\ written[k][1][0] # written[k][1][1]
          /\ AsFloat(k, data_dict[k][1]) = written[k][1][0]
          /\ AsFloat(k, data_dict[k][3]) = written[k][1][1]
    /\ written["returns"][0] # <<>>
    /\ data_dict["advantages"][0].num # data_dict["advantages"][1].num

AfterGetItem == ret.op = "getitem" /\ ret.err = "none"
idx_ == ret.arg[1]

\* C3: with batch_size = horizon_length*num_envs divisible by
\* minibatch_size, get_minibatch(i) returns, for every served field, the
\* flattened samples i*minibatch_size .. (i+1)*minibatch_size - 1; the
\* length() ranges have minibatch_size samples each, are disjoint and
\* contain every flattened sample once (one range when minibatch_size =
\* batch_size).
C3_ContiguousPartition ==
    (AfterGetItem /\ 0 <= idx_ /\ idx_ < length) =>
        /\ DOMAIN ret.out = ServedSet
        /\ \A k \in ServedSet :
              /\ DOMAIN data_dict[k] = 0..batch_size-1
              /\ DOMAIN ret.out[k] = 0..minibatch_size-1
              /\ \A j \in 0..minibatch_size-1 :
                    ret.out[k][j] = data_dict[k][idx_ * minibatch_size + j]
        /\ \A i \in 0..length-1 :
              /\ ItemEnd(i) - ItemStart(i) = minibatch_size
              /\ 0 <= ItemStart(i) /\ ItemEnd(i) <= batch_size
        /\ \A p \in 0..batch_size-1 :
              Cardinality({i \in 0..length-1 : ItemStart(i) <= p /\ p < ItemEnd(i)}) = 1
        /\ (minibatch_size = batch_size => length = 1)

\* the second of two minibatches of two samples, holding what was written
C3_Witness ==
    /\ AfterGetItem
    /\ length = 2 /\ minibatch_size = 2 /\ idx_ = 1
    /\ num_envs = 2
    /\ written["obses"][1] # <<>>
    /\ cycle.prepared
    /\ ret.out["obses"][1] = written["obses"][1][1]
    /\ ret.out["obses"][1] # Zero

AfterUpdate == ret.op = "update_mu_sigma"

\* C4: in every collection cycle, update_distribution_params before any
\* get_minibatch was served in that cycle raises an error (a cycle starts
\* with its first write).
C4_UpdateNeedsServedMinibatch ==
    (AfterUpdate /\ ~cycle.served) => ret.err # "none"

\* C7: a minibatch is served only when compute_returns has run for the
\* current horizon, that is since the last write.
C7_ReadNeedsReturns ==
    AfterGetItem => cycle.computed

\* C8: once a write has followed prepare_training, get_minibatch and
\* update_distribution_params fail until prepare_training is called again.
C8_ViewDiscardedByWrite ==
    (ret.op \in {"getitem", "update_mu_sigma"} /\ HasView /\ ~cycle.prepared)
        => ret.err # "none"

UpdateCall ==
    /\ ret'.op = "update_mu_sigma"
    /\ n_calls'.updates = n_calls.updates + 1

GetItemCall ==
    /\ ret'.op = "getitem"
    /\ n_calls'.total = n_calls.total + 1

\* the active range is that of a minibatch i with 0 <= i < length()
ServedRange ==
    /\ HasView
    /\ last_range # <<>>
    /\ \E i \in 0..length-1 :
          last_range = <<i * minibatch_size, (i + 1) * minibatch_size>>

C9_Update ==
    (UpdateCall /\ ServedRange
       /\ ALen(ret'.arg[1]) = minibatch_size /\ ALen(ret'.arg[2]) = minibatch_size) =>
        LET mu == ret'.arg[1]
            sigma == ret'.arg[2]
            lo == last_range[1]
            hi == last_range[2]
        IN  /\ ret'.err = "none"
            /\ DOMAIN data_dict' = DOMAIN data_dict
            /\ \A p \in DOMAIN data_dict["mus"] :
                  IF lo <= p /\ p < hi
                  THEN /\ data_dict'["mus"][p] = mu[p - lo]
                       /\ data_dict'["sigmas"][p] = sigma[p - lo]
                  ELSE /\ data_dict'["mus"][p] = data_dict["mus"][p]
                       /\ data_dict'["sigmas"][p] = data_dict["sigmas"][p]
            /\ \A k \in DOMAIN data_dict \ {"mus", "sigmas"} :
                  data_dict'[k] = data_dict[k]
            /\ last_range' = last_range

C9_ReadBack ==
    (GetItemCall /\ HasView /\ 0 <= ret'.arg[1] /\ ret'.arg[1] < length) =>
        \A j \in 0..minibatch_size-1 :
            /\ ret'.out["mus"][j] = data_dict["mus"][ret'.arg[1] * minibatch_size + j]
            /\ ret'.out["sigmas"][j] = data_dict["sigmas"][ret'.arg[1] * minibatch_size + j]

\* C9: after get_minibatch(i), update_distribution_params(mean, std) sets
\* action_mean and action_std of the view to mean and std at the flattened
\* indices i*minibatch_size .. (i+1)*minibatch_size - 1 and changes nothing
\* else of the view; a later get_minibatch returns what the view then holds.
C9_UpdateAtServedRange == [][C9_Update /\ C9_ReadBack]_vars

\* the second of two minibatches is served, overwritten, and served again
\* with the new mean and std, the first one keeping its zeros
C9_Witness ==
    /\ AfterGetItem
    /\ n_calls.updates = 1 /\ n_calls.writes = 0
    /\ length = 2 /\ idx_ = 1
    /\ ret.out["mus"][0] # Zero
    /\ ret.out["sigmas"][0] # Zero
    /\ data_dict["mus"][0] = Zero
    /\ data_dict["mus"][minibatch_size] = ret.out["mus"][0]

\* C6: length() * minibatch_size == batch_size in every state of every
\* constructed buffer.
C6_LengthTimesMinibatch == length * minibatch_size = batch_size

ConsistentDims ==
    /\ batch_size = transitions_per_env * num_envs
    /\ batch_size % minibatch_size = 0

\* C10: a buffer constructed with inconsistent dimensions is not usable: a
\* buffer that serves a minibatch has batch_size = horizon_length*num_envs
\* and batch_size divisible by minibatch_size.
C10_InconsistentDimsRejected == AfterGetItem => ConsistentDims

AfterWrite == ret.op = "update_data"
time_index_ == ret.arg[2]
value_ == ret.arg[3]

\* C11: a write whose time index is outside 0 <= time_index <
\* horizon_length (negative indices included), or whose value does not have
\* num_envs rows, raises an error: it is never a write to another timestep
\* or a broadcast of the value across the environments.
C11_BadWriteIsFatal ==
    (AfterWrite /\ (time_index_ \notin Times \/ ALen(value_) # num_envs))
        => ret.err # "none"

\* C12: with tau = 0, after compute_returns the raw advantage
\* return_[t,env] - value[t,env] is the one-step residual
\* reward + gamma * next_value * (1 - done) - value at every t and env,
\* whatever the dones.
C12_TauZeroIsTdResidual ==
    (AfterReturns /\ tau_ = Zero) =>
        \A t \in Times : \A e \in Envs :
            QSub(return_(t, e), value(t, e)) = TdResidual(t, e)

\* tau = 0 and gamma = 1 over three steps, none of them terminal, with
\* non-zero residuals at the two later steps that a carried accumulator
\* would add to the first
C12_Witness ==
    /\ AfterReturns
    /\ tau_ = Zero /\ gamma_ = One
    /\ transitions_per_env = 3
    /\ \A t \in Times : done(t, 0) = 0
    /\ TdResidual(1, 0) # Zero /\ TdResidual(2, 0) # Zero
    /\ QSub(return_(0, 0), value(0, 0)) = TdResidual(0, 0)

\* the premises of C13 for environment e: one positive reward r at every
\* step, values and bootstrap 0, the episode ending at the last step only
ConstantRewardEpisode(e, r) ==
    /\ QLess(Zero, r)
    /\ \A t \in Times : reward(t, e) = r /\ value(t, e) = Zero
    /\ bootstrap_values[e] = Zero
    /\ \A t \in Times : done(t, e) = (IF t = transitions_per_env - 1 THEN 1 ELSE 0)
    /\ QLess(Zero, gamma_) /\ ~QLess(One, gamma_)
    /\ QLess(Zero, tau_) /\ ~QLess(One, tau_)

\* C13: when every reward is the same positive r, every value and the
\* bootstrap are 0, done is 1 at the last timestep only, and gamma and tau
\* are in (0, 1], then after compute_returns return_[T-1] = r and
\* return_[t] > return_[t+1] at every earlier t, in every environment
\* (environment by environment).
C13_ReturnsDecreaseToReward ==
    AfterReturns =>
        \A e \in Envs : \A r \in RewardVals :
            ConstantRewardEpisode(e, r) =>
                /\ return_(transitions_per_env - 1, e) = r
                /\ \A t \in Times :
                      t < transitions_per_env - 1 =>
                          QLess(return_(t + 1, e), return_(t, e))

\* three steps with gamma = tau = 1/2: the returns are 21/16 > 5/4 > 1
C13_Witness ==
    /\ AfterReturns
    /\ transitions_per_env = 3
    /\ gamma_ = Half /\ tau_ = Half
    /\ ConstantRewardEpisode(0, One)
    /\ return_(0, 0) = <<21, 16>>
    /\ return_(1, 0) = <<5, 4>>
    /\ return_(2, 0) = One

\* every written field was written at every time index, then compute_returns
\* and prepare_training ran, and no write followed
CycleComplete ==
    /\ \A i \in 1..Len(WrittenSeq) : \A t \in Times : written[WrittenSeq[i]][t] # <<>>
    /\ cycle.computed
    /\ cycle.prepared

\* the storage and the view of a buffer that was never used before, after the
\* writes, the bootstrap values, gamma and tau of this cycle
CycleStorage ==
    computer_return(
        [k \in Fields |->
            IF k = "returns" THEN Zeros(num_envs, transitions_per_env)[k]
            ELSE [t \in Times |-> [e \in Envs |-> Cast(k, written[k][t][e])]]],
        cycle.args[1], cycle.args[2], cycle.args[3])

CycleView == prepare_training(CycleStorage)

\* C14: after a complete cycle the view and every minibatch served from it
\* are what a never-used buffer of the same shape holds after the same
\* writes, bootstrap values, gamma and tau: nothing of an earlier cycle
\* (stale rewards, values, dones or returns, an old view, mean and std
\* overwrites, the old active range) is in them.
C14_NoCrossCycleRetention ==
    (CycleComplete /\ (AfterPrepare \/ AfterGetItem)) =>
        /\ data_dict = CycleView
        /\ AfterGetItem => ret.out = GetItemOut(CycleView, idx_)

\* a buffer that still has the active range of an earlier cycle, in which
\* it was collected, prepared, served and overwritten with mean and std,
\* after the complete cycle and before any minibatch of this one is served
C14_Witness ==
    /\ CycleComplete
    /\ AfterPrepare
    /\ num_envs = 2 /\ transitions_per_env = 2
    /\ last_range # <<>>
    /\ n_calls.total = CycleWrites + 2
    /\ data_dict["mus"][0] = One
    /\ data_dict["returns"][1] # Zero

\* the raw advantages return_ - value in flattened order, and the numerators
\* and the variance of the normalized advantages of the view
RawFlat ==
    [i \in 0..(transitions_per_env * num_envs - 1) |->
        RawAdvantage(i % transitions_per_env, i \div transitions_per_env)]

AdvNum == [i \in DOMAIN data_dict["advantages"] |-> data_dict["advantages"][i].num]
AdvVar(i) == data_dict["advantages"][i].var

RawAllEqual == \A i \in DOMAIN RawFlat : RawFlat[i] = RawFlat[0]

\* num / (sqrt(var) + 1e-8) is a finite number
FiniteAdvantage(i) ==
    /\ ~QIsNaN(AdvNum[i])
    /\ ~QIsNaN(AdvVar(i))
    /\ ~QLess(AdvVar(i), Zero)

\* C15: after prepare_training the flattened advantage is
\* (raw - mean(raw)) / (std(raw) + 1e-8) with raw = return_ - value over all
\* (t, env): when the raw advantages are not all equal its mean is 0 and its
\* standard deviation is std/(std + 1e-8) with std > 0; when they are all
\* equal every normalized advantage is finite.
C15_NormalizedAdvantage ==
    AfterPrepare =>
        LET n == transitions_per_env * num_envs
            sq == [i \in DOMAIN AdvNum |-> QMul(AdvNum[i], AdvNum[i])]
        IN  /\ \A i \in DOMAIN RawFlat :
                  AdvNum[i] = QSub(RawFlat[i], MeanRawAdvantage)
            /\ ~RawAllEqual =>
                  /\ QSum(AdvNum, n) = Zero
                  /\ \A i \in DOMAIN AdvNum :
                        /\ QLess(Zero, AdvVar(i))
                        /\ QMul(AdvVar(i), ToFloat(n - 1)) = QSum(sq, n)
            /\ RawAllEqual => \A i \in DOMAIN AdvNum : FiniteAdvantage(i)

ReturnsCall ==
    /\ ret'.op = "computer_return"
    /\ n_calls'.returns = n_calls.returns + 1

\* what compute_returns leaves alone whatever the shape: the other storage
\* fields, the dimensions, the active range, the other fields of the view
C16_StorageFrame ==
    /\ \A k \in Fields \ {"returns"} : storage_dict'[k] = storage_dict[k]
    /\ UNCHANGED <<dims, last_range>>
    /\ DOMAIN data_dict' = DOMAIN data_dict
    /\ \A k \in DOMAIN data_dict \ {"returns"} : data_dict'[k] = data_dict[k]

\* a second call right after a call with the same arguments
C16_Idempotent ==
    (ret.op = "computer_return" /\ ret'.arg = ret.arg) =>
        storage_dict'["returns"] = storage_dict["returns"]

\* C16 as claimed: compute_returns changes only the stored return_ field;
\* rewards, values, dones and every other storage field, the training view
\* and the active range are unchanged, and a second call with the same
\* bootstrap_values, gamma and tau leaves return_ as the first call left it.
C16_OnlyReturnsChange ==
    [][ReturnsCall =>
          /\ C16_StorageFrame
          /\ data_dict' = data_dict
          /\ C16_Idempotent]_vars

\* C16 as the code has it: compute_returns changes the stored return_ field
\* and, when a training view exists that shares its memory with storage
\* (num_envs = 1 or horizon_length = 1), the return_ field of the view with
\* it; every other storage field, every other field of the view and the
\* active range are unchanged, the whole view is unchanged when num_envs >= 2
\* and horizon_length >= 2, and a second call with the same arguments leaves
\* return_ as the first call left it.
C16_OnlyReturnsChangeShared ==
    [][ReturnsCall =>
          /\ C16_StorageFrame
          /\ HasView =>
                data_dict'["returns"] =
                    IF SharesMemory(transitions_per_env, num_envs)
                    THEN transform_op(storage_dict'["returns"],
                                      transitions_per_env, num_envs)
                    ELSE data_dict["returns"]
          /\ C16_Idempotent]_vars

\* a second compute_returns on a single-environment buffer of two steps
\* whose view was prepared before: the view reads the new returns
C16_Witness ==
    /\ AfterReturns
    /\ n_calls.returns = 2
    /\ HasView
    /\ num_envs = 1 /\ transitions_per_env = 2
    /\ return_(0, 0) # Zero /\ return_(0, 0) # return_(1, 0)
    /\ data_dict["returns"][0] = return_(0, 0)
    /\ data_dict["returns"][1] = return_(1, 0)
    /\ data_dict["advantages"][0].num = Zero

\* another entry for one cell of rewards, values or dones
OtherEntry(f, x) ==
    IF f = "dones" THEN 1 - x
    ELSE IF f = "rewards" THEN (IF x = Zero THEN One ELSE Zero)
    ELSE (IF x = Zero THEN ToFloat(2) ELSE Zero)

\* return_ of a second run on the same buffer with the entry of field f at
\* (t1, e1) replaced, and with the bootstrap value of e1 replaced
ReturnsWithOtherEntry(f, t1, e1) ==
    computer_return([storage_dict EXCEPT ![f][t1][e1] = OtherEntry(f, @)],
                    bootstrap_values, gamma_, tau_)["returns"]

ReturnsWithOtherBootstrap(e1) ==
    computer_return(storage_dict,
                    [bootstrap_values EXCEPT ![e1] = QAdd(@, One)],
                    gamma_, tau_)["returns"]

\* C17: after compute_returns, return_[t,e] is what a second run returns
\* that differs in one reward, value or done of another environment or of
\* environment e at an earlier time, or in the bootstrap value of another
\* environment: return_[t,e] depends only on e's own data at times >= t and
\* on bootstrap_values[e].
C17_EnvsDoNotInterfere ==
    AfterReturns =>
        /\ \A f \in {"rewards", "values", "dones"} : \A t1 \in Times : \A e1 \in Envs :
              LET second == ReturnsWithOtherEntry(f, t1, e1)
              IN  \A t \in Times : \A e \in Envs :
                      (e # e1 \/ t1 < t) => second[t][e] = return_(t, e)
        /\ \A e1 \in Envs :
              LET second == ReturnsWithOtherBootstrap(e1)
              IN  \A t \in Times : \A e \in Envs :
                      e # e1 => second[t][e] = return_(t, e)

\* two environments over two steps with gamma = tau = 1: the second run
\* changes the return of environment 1 at time 0 and leaves environment 0
\* and the later step alone
C17_Witness ==
    /\ AfterReturns
    /\ num_envs = 2 /\ transitions_per_env = 2
    /\ gamma_ = One /\ tau_ = One
    /\ done(0, 0) = 0 /\ done(0, 1) = 0 /\ done(1, 0) = 0 /\ done(1, 1) = 0
    /\ ReturnsWithOtherEntry("rewards", 0, 1)[0][1] # return_(0, 1)
    /\ ReturnsWithOtherEntry("rewards", 0, 1)[0][0] = return_(0, 0)
    /\ ReturnsWithOtherEntry("rewards", 0, 1)[1][1] = return_(1, 1)
    /\ ReturnsWithOtherBootstrap(1)[0][1] # return_(0, 1)
    /\ ReturnsWithOtherBootstrap(1)[0][0] = return_(0, 0)

====
